---- MODULE Spec2Model ----
(***************************************************************************)
(* GigaClaw agent execution pipeline.                                      *)
(*                                                                         *)
(* Part I  : the container runner (container-runner.ts, stored as          *)
(*           src/container/build-docker.sh lines 130-404): one invocation  *)
(*           of runContainerAgent, its stream handlers, timeout timer,     *)
(*           close and error handlers and the sentinel output parser.      *)
(* Part II : the message router (src/src/message-router.ts) and the shared *)
(*           state (state.ts, stored as src/src/config.ts lines 159-201).  *)
(*                                                                         *)
(* Text is a sequence of tokens.  One token stands for a run of characters *)
(* that the code never looks inside: "D" is '---', "S" is                  *)
(* 'GIGACLAW_OUTPUT_START', "E" is 'GIGACLAW_OUTPUT_END', "\n" a newline,  *)
(* " " a blank, every other token a run of non-blank characters.           *)
(***************************************************************************)
EXTENDS Integers, Sequences, FiniteSets, TLC

VARIABLES
    \* ---- Part I: one runContainerAgent invocation ----
    pc,               \* "call" before the invocation, "spawned" after line 291-331
    groupTimeout,     \* group.containerConfig?.timeout (0: absent)
    child,            \* "none" | "running" | "spawnfail" | "killed" | "errored" | "closed"
    stdout,           \* let stdout (line 293)
    stderr,           \* let stderr (line 294)
    stdoutTruncated,  \* line 295
    stderrTruncated,  \* line 296
    timer,            \* "unset" | "armed" | "fired" | "cleared" (line 327)
    timerDelay,       \* the delay handed to setTimeout (line 331)
    promise,          \* the promise returned at line 287
    jsonLine,         \* let jsonLine (line 349), as last computed
    exitCode,         \* the code of the last close event ("none" before it)
    errorLog,         \* the stderr slice of the last logger.error at line 338
    stdoutRecv,       \* history: concatenation of every stdout chunk received
    stderrRecv,       \* history: concatenation of every stderr chunk received
    dropped,          \* history: chunks consumed after a truncation flag was set
    nchunks,          \* history: number of data events so far
    handled,          \* history: the handlers run so far, in order
    group,            \* the RegisteredGroup argument: folder, additionalMounts
    hostFs,           \* the host: groups/global exists, the content of .env
    mounts,           \* const mounts (line 276)
    containerArgs,    \* const containerArgs (line 277)
    envDirFile,       \* the file data/env/env
    \* ---- Part II: router and shared state ----
    messages,             \* db: the stored messages
    lastAgentTimestamp,   \* state.ts:171
    sessions,             \* state.ts:169
    diskTimestamp,        \* data/router_state.json
    diskSessions,         \* data/sessions.json
    turn,                 \* per chat: the processMessage call in progress
    sent,                 \* what sendMessage handed to the transport
    tasksFile,            \* per group folder: data/ipc/<folder>/current_tasks.json
    groupsFile,           \* per group folder: data/ipc/<folder>/available_groups.json
    lastTurn,             \* history: per chat, the last completed turn
    nturns,               \* history: number of processMessage calls so far
    resultStamp,          \* history: per chat, the timestamp of the triggering
                          \* message of the last turn that returned a string
    reported,             \* history: per folder, the newSessionId last reported
                          \* by a turn with status "success"
    lastWrite,            \* history: the arguments of the last snapshot write
    nwrites,              \* history: number of direct snapshot calls so far
    left,                 \* history: watermarks and session handles as the last
                          \* turn with status "success" of each chat left them
    covered,              \* history: the messages of the windows of the turns
                          \* that returned a string
    \* ---- Part III: the Telegram polling loop (telegram.ts) ----
    updates,              \* Telegram: every update produced so far, by update_id
    offset,               \* let offset (line 117)
    batch,                \* const updates (line 122): the part not handled yet
    loop,                 \* "poll": between updates; "await": in handleUpdate,
                          \* awaiting the processMessage call of batch[1]
    completed,            \* history: the update_ids whose handling completed
    calls,                \* history: storeChatMetadata, storeNewMessage and
                          \* processMessage calls, in order
    TELEGRAM_ALLOWED_USER_IDS   \* config.ts:71-73, read from the environment

runnerVars == <<pc, groupTimeout, child, stdout, stderr, stdoutTruncated,
                stderrTruncated, timer, timerDelay, promise, jsonLine, exitCode, errorLog,
                stdoutRecv, stderrRecv, dropped, nchunks, handled,
                group, hostFs, mounts, containerArgs, envDirFile>>
mountVars == <<group, hostFs, mounts, containerArgs, envDirFile>>
routerVars == <<messages, lastAgentTimestamp, sessions, diskTimestamp,
                diskSessions, turn, sent, tasksFile, groupsFile, lastTurn, nturns,
                resultStamp, reported, lastWrite, nwrites, left, covered>>
loopVars == <<updates, offset, batch, loop, completed, calls, TELEGRAM_ALLOWED_USER_IDS>>
vars == <<runnerVars, routerVars, loopVars>>

(***************************************************************************)
(* Bounds of the model.                                                    *)
(***************************************************************************)
\* Number of data events (stdout and stderr together) in one invocation.
MaxChunks == 3
\* Number of inbound messages, and the largest message timestamp.
MaxMessages == 2
MaxTimestamp == 2
\* Length of a task list handed to writeTasksSnapshot, and number of direct
\* calls of the snapshot functions.
MaxTasks == 2
MaxWrites == 2
\* Number of lines of the host's .env file, and of additional mounts a group
\* asks for.
MaxEnvLines == 2
MaxExtraMounts == 2
\* CONTAINER_MAX_OUTPUT_SIZE (config.ts:49, read from the environment, any
\* positive integer), here in tokens.
CONTAINER_MAX_OUTPUT_SIZE == 16

(***************************************************************************)
(* Program constants.                                                      *)
(***************************************************************************)
CONTAINER_TIMEOUT == 300000
StderrLogTail == 500

ASSISTANT_NAME == "Neo"
MAIN_GROUP_FOLDER == "main"
MESSAGE_PREFIX == <<>>

OUTPUT_START_MARKER == <<"D", "S", "D">>
OUTPUT_END_MARKER == <<"D", "E", "D">>

(***************************************************************************)
(* JavaScript string primitives.                                           *)
(***************************************************************************)
Min(a, b) == IF a < b THEN a ELSE b

WhiteSpace == {" ", "\n"}

\* String.prototype.indexOf: 0-based index of the first occurrence, else -1.
IndexOf(s, pat) ==
    LET hits == {i \in 1..(Len(s) - Len(pat) + 1) :
                    SubSeq(s, i, i + Len(pat) - 1) = pat}
    IN IF hits = {} THEN -1
       ELSE (CHOOSE i \in hits : \A j \in hits : i <= j) - 1

\* String.prototype.slice(from, to), 0 <= from, 0 <= to.
Slice(s, from, to) ==
    LET e == Min(to, Len(s))
    IN IF from >= e THEN <<>> ELSE SubSeq(s, from + 1, e)

\* String.prototype.slice(-n).
SliceTail(s, n) ==
    IF Len(s) <= n THEN s ELSE SubSeq(s, Len(s) - n + 1, Len(s))

\* String.prototype.trim.
Trim(s) ==
    LET keep == {i \in 1..Len(s) : s[i] \notin WhiteSpace}
    IN IF keep = {} THEN <<>>
       ELSE SubSeq(s, CHOOSE i \in keep : \A j \in keep : i <= j,
                      CHOOSE i \in keep : \A j \in keep : i >= j)

\* s.split('\n') followed by lines[lines.length - 1] ?? ''.
LastLine(s) ==
    LET nl == {i \in 1..Len(s) : s[i] = "\n"}
    IN IF nl = {} THEN s
       ELSE LET k == CHOOSE i \in nl : \A j \in nl : i >= j
            IN IF k = Len(s) THEN <<>> ELSE SubSeq(s, k + 1, Len(s))

IsPrefix(p, s) == Len(p) <= Len(s) /\ SubSeq(s, 1, Len(p)) = p

\* String.prototype.includes.
Includes(s, pat) == IndexOf(s, pat) # -1

\* A file: absent, or its text.  fs.writeFileSync replaces the content.
NoFile == [exists |-> FALSE, text |-> <<>>]
AppendFileSync(file, text) == [exists |-> TRUE, text |-> file.text \o text]
WriteFileSync(file, text) == [exists |-> TRUE, text |-> text]

(***************************************************************************)
(* JavaScript values and JSON.  A string value is [t |-> "string", v |->   *)
(* its text]; null and undefined carry the empty text.  A parsed document  *)
(* is an object with the four properties of ContainerOutput (an absent     *)
(* property is undefined) or the value null.                               *)
(***************************************************************************)
JUndef == [t |-> "undefined", v |-> <<>>]
JNull == [t |-> "null", v |-> <<>>]
JStr(s) == [t |-> "string", v |-> s]

JObj(st, res, sid, err) ==
    [t |-> "object", status |-> st, result |-> res, newSessionId |-> sid, error |-> err]
JNullDoc ==
    [t |-> "null", status |-> "undefined", result |-> JUndef,
     newSessionId |-> JUndef, error |-> JUndef]

\* Texts a child may give as result, session handle and error.
ResultStrings == {<<>>, <<"ok">>, <<"\n">>, OUTPUT_END_MARKER}
SessionStrings == {<<"s1">>, <<"s2">>}
ErrorStrings == {<<"x">>}

\* The JSON documents of the model: every object over the four properties,
\* and null.
JsonUniverse ==
    {JNullDoc} \cup
    {JObj(st, res, sid, err) :
        st \in {"success", "error", "undefined"},
        res \in {JUndef, JNull} \cup {JStr(r) : r \in ResultStrings},
        sid \in {JUndef} \cup {JStr(r) : r \in SessionStrings},
        err \in {JUndef} \cup {JStr(r) : r \in ErrorStrings}}

\* JSON string escaping: a newline becomes the two characters \n, a quote \".
Escape(s) ==
    [i \in 1..Len(s) |->
        IF s[i] = "\n" THEN "\\n" ELSE IF s[i] = "\"" THEN "\\\"" ELSE s[i]]

Quoted(s) == <<"\"">> \o Escape(s) \o <<"\"">>

\* One property of an object; an undefined property is left out.
Property(key, val) ==
    IF val.t = "undefined" THEN <<>>
    ELSE IF val.t = "null" THEN <<key, "null">>
    ELSE <<key>> \o Quoted(val.v)

\* JSON.stringify.
Stringify(o) ==
    IF o.t = "null" THEN <<"null">>
    ELSE <<"{">>
         \o (IF o.status = "undefined" THEN <<>> ELSE <<"status:", o.status>>)
         \o Property("result:", o.result)
         \o Property("newSessionId:", o.newSessionId)
         \o Property("error:", o.error)
         \o <<"}">>

\* JSON.parse: the document whose text this is (blanks around it ignored),
\* or a SyntaxError.
ParseJson(text) ==
    LET t == Trim(text)
        docs == {o \in JsonUniverse : Stringify(o) = t}
    IN IF docs = {} THEN [ok |-> FALSE, val |-> JNullDoc]
       ELSE [ok |-> TRUE, val |-> CHOOSE o \in docs : TRUE]

(***************************************************************************)
(* runContainerAgent: the outputs it builds itself.                        *)
(***************************************************************************)
ErrorOutput(text) == JObj("error", JNull, JUndef, JStr(text))

TimeoutOutput == ErrorOutput(<<"Container timed out">>)
SpawnErrorOutput == ErrorOutput(<<"Container spawn error">>)
ParseFailOutput == ErrorOutput(<<"Failed to parse container output">>)

ExitErrorOutputNoCode(code) == ErrorOutput(<<"Container exited with code ">>)
ExitErrorOutput(code) == ErrorOutput(<<"Container exited with code ", code>>)

\* Exit codes as they print in the template literal of line 342; "null" is
\* the code of a child ended by a signal.
ExitCodes == {"0", "1", "null"}

(***************************************************************************)
(* The promise of line 287: resolve settles it once, later calls are       *)
(* ignored.                                                                *)
(***************************************************************************)
Pending == [state |-> "pending", value |-> JNullDoc]

ResolveOverwrite(p, v) == [state |-> "resolved", value |-> v]
Resolve(p, v) ==
    IF p.state = "pending" THEN [state |-> "resolved", value |-> v] ELSE p

\* clearTimeout: a timer that has not fired yet never fires.
ClearTimeoutForgotten(t) == t
ClearTimeout(t) == IF t = "armed" THEN "cleared" ELSE t

\* The delay of line 331.
TimeoutDelay(override) == IF override # 0 THEN override ELSE CONTAINER_TIMEOUT

(***************************************************************************)
(* The data handlers (lines 301-325).                                      *)
(***************************************************************************)
AppendUncapped(buf, chunk) == [buf |-> buf \o chunk, truncated |-> FALSE]
AppendCapped(buf, chunk) ==
    LET remaining == CONTAINER_MAX_OUTPUT_SIZE - Len(buf)
    IN IF Len(chunk) > remaining
       THEN [buf |-> buf \o Slice(chunk, 0, remaining), truncated |-> TRUE]
       ELSE [buf |-> buf \o chunk, truncated |-> FALSE]

(***************************************************************************)
(* The close handler's parser (lines 346-365).                             *)
(***************************************************************************)
ExtractJsonLineUntrimmed(out) ==
    LET startIdx == IndexOf(out, OUTPUT_START_MARKER)
        endIdx == IndexOf(out, OUTPUT_END_MARKER)
    IN IF startIdx # -1 /\ endIdx # -1 /\ endIdx > startIdx
       THEN Trim(Slice(out, startIdx + Len(OUTPUT_START_MARKER), endIdx))
       ELSE LastLine(out)
ExtractJsonLine(out) ==
    LET startIdx == IndexOf(out, OUTPUT_START_MARKER)
        endIdx == IndexOf(out, OUTPUT_END_MARKER)
    IN IF startIdx # -1 /\ endIdx # -1 /\ endIdx > startIdx
       THEN Trim(Slice(out, startIdx + Len(OUTPUT_START_MARKER), endIdx))
       ELSE LastLine(Trim(out))

\* Lines 356-365 on a payload: the parsed value as it is, or the parse
\* error output when JSON.parse throws or when reading output.status of
\* null throws (line 357, inside the try).
ParsedOutcome(payload) ==
    LET p == ParseJson(payload)
    IN IF ~p.ok THEN ParseFailOutput
       ELSE IF p.val.t = "null" THEN ParseFailOutput
       ELSE p.val

\* What the close handler hands to resolve.
CloseOutcome(code, out) ==
    IF code # "0" THEN ExitErrorOutput(code) ELSE ParsedOutcome(ExtractJsonLine(out))

(***************************************************************************)
(* buildVolumeMounts (lines 183-241) and buildContainerArgs (lines         *)
(* 243-265).  A path is the sequence of its segments; a line of .env is a  *)
(* sequence of tokens: a variable name, "X" (one more name character),     *)
(* "=", "v" (a value), "#", a blank.                                       *)
(***************************************************************************)
ALLOWED_ENV_VARS ==
    {"CLAUDE_CODE_OAUTH_TOKEN", "ANTHROPIC_API_KEY", "ANTHROPIC_BASE_URL",
     "ANTHROPIC_AUTH_TOKEN", "TZ"}

Mount(hostPath, containerPath, readonly) ==
    [hostPath |-> hostPath, containerPath |-> containerPath, readonly |-> readonly]

\* process.cwd(), GROUPS_DIR, DATA_DIR.
ProjectRoot == <<"cwd">>
GroupsDir(folder) == <<"cwd", "groups", folder>>
DataDir(kind, folder) == <<"cwd", "data", kind, folder>>
EnvDir == <<"cwd", "data", "env">>

\* The filter of lines 220-224 on one line.
EnvLineKeptNoEquals(line) ==
    LET trimmed == Trim(line)
    IN /\ trimmed # <<>>
       /\ trimmed[1] # "#"
       /\ \E v \in ALLOWED_ENV_VARS : IsPrefix(<<v>>, trimmed)
EnvLineKept(line) ==
    LET trimmed == Trim(line)
    IN /\ trimmed # <<>>
       /\ trimmed[1] # "#"
       /\ \E v \in ALLOWED_ENV_VARS : IsPrefix(<<v, "=">>, trimmed)

\* filteredLines.join('\n') + '\n'.
RECURSIVE JoinEnvLines(_)
JoinEnvLines(lines) ==
    IF lines = <<>> THEN <<>>
    ELSE IF Len(lines) = 1 THEN lines[1]
    ELSE lines[1] \o <<"\n">> \o JoinEnvLines(Tail(lines))
EnvFileText(lines) == JoinEnvLines(lines) \o <<"\n">>

\* mount-security.validateAdditionalMounts: a request is dropped when its
\* host path is outside the allowlist, or when the group is not the main
\* group and the path is reserved for the main group.
Allowlist == {"allowed"}
MainOnly == {"admin"}
ValidateAdditionalMounts(requested, isMain) ==
    SelectSeq(requested,
              LAMBDA r : /\ r.hostPath[1] \in Allowlist
                         /\ isMain \/ r.hostPath[Len(r.hostPath)] \notin MainOnly)

\* Lines 187-204: the workspace mounts.
WorkspaceMountsAlwaysProject(g, isMain, fs) ==
    << Mount(ProjectRoot, "/workspace/project", FALSE),
       Mount(GroupsDir(g.folder), "/workspace/group", FALSE) >>
WorkspaceMounts(g, isMain, fs) ==
    IF isMain
    THEN << Mount(ProjectRoot, "/workspace/project", FALSE),
            Mount(GroupsDir(g.folder), "/workspace/group", FALSE) >>
    ELSE << Mount(GroupsDir(g.folder), "/workspace/group", FALSE) >>
         \o (IF fs.globalDir
             THEN << Mount(GroupsDir("global"), "/workspace/global", TRUE) >>
             ELSE <<>>)

\* buildVolumeMounts: the mount list, and the env file it leaves behind.
BuildVolumeMounts(g, isMain, fs, oldEnv) ==
    LET workspace == WorkspaceMounts(g, isMain, fs)
        session == << Mount(DataDir("sessions", g.folder), "/home/user", FALSE) >>
        ipc == << Mount(DataDir("ipc", g.folder), "/workspace/ipc", FALSE) >>
        filteredLines == IF fs.env.exists THEN SelectSeq(fs.env.lines, EnvLineKept)
                         ELSE <<>>
        env == IF filteredLines # <<>>
               THEN << Mount(EnvDir, "/workspace/env-dir", TRUE) >>
               ELSE <<>>
    IN [mounts |-> workspace \o session \o ipc \o env
                   \o ValidateAdditionalMounts(g.additionalMounts, isMain),
        envFile |-> IF filteredLines # <<>>
                    THEN WriteFileSync(oldEnv, EnvFileText(filteredLines))
                    ELSE oldEnv]

\* buildContainerArgs: every argument is a sequence of tokens.
MountArgs(m) ==
    IF m.readonly
    THEN << <<"--mount">>,
            <<"type=bind,source=">> \o m.hostPath \o <<",target=", m.containerPath,
                                                      ",readonly">> >>
    ELSE << <<"-v">>, m.hostPath \o <<":", m.containerPath>> >>
RECURSIVE AllMountArgs(_)
AllMountArgs(ms) ==
    IF ms = <<>> THEN <<>> ELSE MountArgs(ms[1]) \o AllMountArgs(Tail(ms))
BuildContainerArgs(ms) ==
    << <<"run">>, <<"-i">>, <<"--rm">>, <<"--user">>, <<"uid:gid">>,
       <<"-e">>, <<"HOME=/home/user">> >>
    \o AllMountArgs(ms) \o << <<"CONTAINER_IMAGE">> >>

\* The groups and hosts of the model.
EnvLines ==
    { <<"TZ", "=", "v">>, <<" ", "TZ", "=", "v">>, <<"SECRET", "=", "v">>,
      <<"TZ", "X", "=", "v">>, <<"#", "TZ", "=", "v">>, <<"TZ", " ", "=", "v">> }
EnvFiles ==
    {[exists |-> FALSE, lines |-> <<>>]}
    \cup {[exists |-> TRUE, lines |-> l] :
             l \in UNION {[1..n -> EnvLines] : n \in 0..MaxEnvLines}}
MountRequests ==
    { Mount(<<"allowed", "a">>, "/workspace/extra/a", TRUE),
      Mount(<<"allowed", "a">>, "/workspace/group", TRUE),
      Mount(<<"allowed", "admin">>, "/workspace/extra/a", TRUE),
      Mount(<<"etc">>, "/workspace/extra/a", TRUE) }
Groups ==
    [folder : {MAIN_GROUP_FOLDER, "family"},
     additionalMounts : UNION {[1..n -> MountRequests] : n \in 0..MaxExtraMounts}]
Hosts == [globalDir : BOOLEAN, env : EnvFiles]

DefaultGroup == [folder |-> MAIN_GROUP_FOLDER, additionalMounts |-> <<>>]
DefaultHost == [globalDir |-> FALSE, env |-> [exists |-> FALSE, lines |-> <<>>]]

(***************************************************************************)
(* The child: what it may write in one chunk.                              *)
(***************************************************************************)
Doc(st, res, sid, err) == Stringify(JObj(st, res, sid, err))

\* The documents a child prints in this model.
ChildDocs ==
    { Doc("success", JStr(<<"ok">>), JUndef, JUndef),
      Doc("success", JStr(OUTPUT_END_MARKER), JUndef, JUndef),
      Doc("success", JStr(<<"\n">>), JStr(<<"s1">>), JUndef),
      Doc("error", JNull, JStr(<<"s2">>), JStr(<<"x">>)),
      Doc("undefined", JUndef, JUndef, JUndef),
      Stringify(JNullDoc) }

\* A conforming child's three writes, arriving as one chunk.
Framed(doc) == OUTPUT_START_MARKER \o doc \o OUTPUT_END_MARKER

StdoutChunks ==
    { <<"n">>, <<"\n">>, <<" ">>,
      OUTPUT_START_MARKER, OUTPUT_END_MARKER,
      Framed(Doc("success", JStr(<<"ok">>), JUndef, JUndef)) }
    \cup ChildDocs

StderrChunks == { <<"e">>, <<"w", "\n", "e", "e", "e", "e", "e", "e", "e">> }

GroupTimeouts == {0, 1000}

(***************************************************************************)
(* Part I: actions.                                                        *)
(***************************************************************************)
RunnerStart ==
    /\ pc = "call"
    /\ groupTimeout \in GroupTimeouts
    /\ child = "none"
    /\ stdout = <<>>
    /\ stderr = <<>>
    /\ stdoutTruncated = FALSE
    /\ stderrTruncated = FALSE
    /\ timer = "unset"
    /\ timerDelay = 0
    /\ promise = Pending
    /\ jsonLine = <<>>
    /\ exitCode = "none"
    /\ errorLog = <<>>
    /\ stdoutRecv = <<>>
    /\ stderrRecv = <<>>
    /\ dropped = 0
    /\ nchunks = 0
    /\ handled = <<>>
    /\ mounts = <<>>
    /\ containerArgs = <<>>
    /\ envDirFile = NoFile

\* One group and one host for the runs that are not about the mounts.
RunnerInit ==
    /\ RunnerStart
    /\ group = DefaultGroup
    /\ hostFs = DefaultHost

\* Lines 267-331.  A mkdirSync may throw, before buildVolumeMounts writes the
\* env file (lines 274, 207-216) or after it (line 285): the async function
\* then rejects.  Otherwise the mounts and the arguments are built, the child
\* is spawned (the spawn itself may fail, which the child reports later by an
\* error event), the locals are initialised and the timer is set.
Invoke ==
    /\ pc = "call"
    /\ \E fs \in {"ok", "early", "late"}, spawnOk \in BOOLEAN :
        LET isMain == group.folder = MAIN_GROUP_FOLDER
            built == BuildVolumeMounts(group, isMain, hostFs, envDirFile)
        IN /\ IF fs = "early"
              THEN UNCHANGED <<mounts, containerArgs, envDirFile>>
              ELSE /\ mounts' = built.mounts
                   /\ containerArgs' = BuildContainerArgs(built.mounts)
                   /\ envDirFile' = built.envFile
           /\ IF fs # "ok"
              THEN /\ promise' = [state |-> "rejected", value |-> JNullDoc]
                   /\ pc' = "threw"
                   /\ UNCHANGED <<child, timer, timerDelay>>
              ELSE /\ pc' = "spawned"
                   /\ child' = IF spawnOk THEN "running" ELSE "spawnfail"
                   /\ timer' = "armed"
                   /\ timerDelay' = TimeoutDelay(groupTimeout)
                   /\ UNCHANGED promise
    /\ UNCHANGED <<groupTimeout, stdout, stderr, stdoutTruncated, stderrTruncated,
                   jsonLine, exitCode, errorLog, stdoutRecv, stderrRecv, dropped,
                   nchunks, handled, group, hostFs>>
    /\ UNCHANGED routerVars
    /\ UNCHANGED loopVars

\* The streams deliver data while the child has not closed.
StreamsOpen == pc = "spawned" /\ child \in {"running", "killed"} /\ nchunks < MaxChunks

\* container.stdout.on('data') (lines 301-311).
StdoutData ==
    /\ StreamsOpen
    /\ \E chunk \in StdoutChunks :
        /\ stdoutRecv' = stdoutRecv \o chunk
        /\ IF stdoutTruncated
           THEN /\ dropped' = dropped + 1
                /\ UNCHANGED <<stdout, stdoutTruncated>>
           ELSE LET r == AppendCapped(stdout, chunk)
                IN /\ stdout' = r.buf
                   /\ stdoutTruncated' = r.truncated
                   /\ UNCHANGED dropped
    /\ nchunks' = nchunks + 1
    /\ UNCHANGED <<pc, groupTimeout, child, stderr, stderrTruncated, timer, timerDelay,
                   promise, jsonLine, exitCode, errorLog, stderrRecv, handled>>
    /\ UNCHANGED mountVars
    /\ UNCHANGED routerVars
    /\ UNCHANGED loopVars

\* container.stderr.on('data') (lines 313-325).
StderrData ==
    /\ StreamsOpen
    /\ \E chunk \in StderrChunks :
        /\ stderrRecv' = stderrRecv \o chunk
        /\ IF stderrTruncated
           THEN /\ dropped' = dropped + 1
                /\ UNCHANGED <<stderr, stderrTruncated>>
           ELSE LET r == AppendCapped(stderr, chunk)
                IN /\ stderr' = r.buf
                   /\ stderrTruncated' = r.truncated
                   /\ UNCHANGED dropped
    /\ nchunks' = nchunks + 1
    /\ UNCHANGED <<pc, groupTimeout, child, stdout, stdoutTruncated, timer, timerDelay,
                   promise, jsonLine, exitCode, errorLog, stdoutRecv, handled>>
    /\ UNCHANGED mountVars
    /\ UNCHANGED routerVars
    /\ UNCHANGED loopVars

\* The timer callback (lines 327-331).  An armed timer fires when its delay
\* has passed; a spawn failure is reported on the next tick, before any
\* timer.
TimeoutFire ==
    /\ timer = "armed"
    /\ child # "spawnfail"
    /\ timer' = "fired"
    /\ child' = IF child = "running" THEN "killed" ELSE child
    /\ promise' = Resolve(promise, TimeoutOutput)
    /\ handled' = Append(handled, "timeout")
    /\ UNCHANGED <<pc, groupTimeout, stdout, stderr, stdoutTruncated, stderrTruncated,
                   timerDelay, jsonLine, exitCode, errorLog, stdoutRecv, stderrRecv,
                   dropped, nchunks>>
    /\ UNCHANGED mountVars
    /\ UNCHANGED routerVars
    /\ UNCHANGED loopVars

\* container.on('close') (lines 333-366).  A running child closes with any
\* code; a killed child may have exited on its own just before the kill; a
\* failed spawn closes with a non-zero code after its error event.
Close ==
    /\ pc = "spawned"
    /\ child \in {"running", "killed", "errored"}
    /\ \E code \in ExitCodes :
        /\ child = "errored" => code # "0"
        /\ exitCode' = code
        /\ promise' = Resolve(promise, CloseOutcome(code, stdout))
        /\ IF code # "0"
           THEN /\ errorLog' = SliceTail(stderr, StderrLogTail)
                /\ UNCHANGED jsonLine
           ELSE /\ jsonLine' = ExtractJsonLine(stdout)
                /\ UNCHANGED errorLog
    /\ timer' = ClearTimeout(timer)
    /\ child' = "closed"
    /\ handled' = Append(handled, "close")
    /\ UNCHANGED <<pc, groupTimeout, stdout, stderr, stdoutTruncated, stderrTruncated,
                   timerDelay, stdoutRecv, stderrRecv, dropped, nchunks>>
    /\ UNCHANGED mountVars
    /\ UNCHANGED routerVars
    /\ UNCHANGED loopVars

\* container.on('error') (lines 368-372).
SpawnError ==
    /\ pc = "spawned"
    /\ child = "spawnfail"
    /\ timer' = ClearTimeout(timer)
    /\ promise' = Resolve(promise, SpawnErrorOutput)
    /\ child' = "errored"
    /\ handled' = Append(handled, "error")
    /\ UNCHANGED <<pc, groupTimeout, stdout, stderr, stdoutTruncated, stderrTruncated,
                   timerDelay, jsonLine, exitCode, errorLog, stdoutRecv, stderrRecv,
                   dropped, nchunks>>
    /\ UNCHANGED mountVars
    /\ UNCHANGED routerVars
    /\ UNCHANGED loopVars

RunnerNext ==
    \/ Invoke
    \/ StdoutData
    \/ StderrData
    \/ TimeoutFire
    \/ Close
    \/ SpawnError

(***************************************************************************)
(* Part II: the router.  Configuration (config.ts) and the registered      *)
(* groups (registered_groups.json, read-only for the router).              *)
(***************************************************************************)

Chats == {"telegram@chat:1", "telegram@chat:2", "telegram@chat:9"}

\* registeredGroups: chat jid -> group folder.
registeredGroups ==
    [c \in {"telegram@chat:1", "telegram@chat:2"} |->
        IF c = "telegram@chat:1" THEN MAIN_GROUP_FOLDER ELSE "family"]

Folders == {registeredGroups[c] : c \in DOMAIN registeredGroups}

\* Message content is a sequence of tokens: the mention '@Neo' in some
\* letter case, a run of word characters ("hi", "x"), a comma, a blank.
Mentions == {"@Neo", "@neo", "@NEO"}
WordTokens == {"hi", "x"}

\* TRIGGER_PATTERN.test (config.ts:8-11), /^@Neo\b/i: the text starts with
\* the mention, in any letter case, and a word character does not follow it.
TriggerPatternTestNoBoundary(content) ==
    Len(content) > 0 /\ content[1] \in Mentions
TriggerPatternTest(content) ==
    /\ Len(content) > 0
    /\ content[1] \in Mentions
    /\ Len(content) > 1 => content[2] \notin WordTokens

\* ' @neo,hi' (blank first, lower case, a comma after the name), 'hi @Neo'
\* (the mention is not at the start) and '@Neox' (no word boundary).
Contents == { <<" ", "@neo", ",", "hi">>, <<"hi", " ", "@Neo">>, <<"@Neo", "x">> }
SenderNames == {"alice", ASSISTANT_NAME}

\* A NewMessage (telegramToNewMessage); timestamps are ISO strings of equal
\* width, ordered as the integers standing for them; 0 stands for ''.
\* In the model a sender who bears the assistant's name, and every sender of
\* the chat without a group, writes the first content only.
NewMessages(id) ==
    {m \in [id : {id}, chat_jid : Chats, sender_name : SenderNames,
            content : Contents, timestamp : 1..MaxTimestamp] :
        /\ m.sender_name = ASSISTANT_NAME => m.content = <<" ", "@neo", ",", "hi">>
        /\ m.chat_jid \notin DOMAIN registeredGroups =>
               (m.sender_name # ASSISTANT_NAME /\ m.content = <<" ", "@neo", ",", "hi">>)}

NoMessage ==
    [id |-> 0, chat_jid |-> "none", sender_name |-> "none", content |-> <<>>,
     timestamp |-> 0]

\* db.getMessagesSince(chatJid, sinceTimestamp, botName): the stored
\* messages of the chat strictly after the timestamp, not authored by the
\* assistant.
GetMessagesSince(store, chatJid, since, botName) ==
    {m \in store : m.chat_jid = chatJid /\ m.timestamp > since
                   /\ m.sender_name # botName}

\* The rows of the window in the order getMessagesSince returns them (by
\* timestamp; rows of one timestamp by id).
RECURSIVE Ordered(_)
Ordered(rows) ==
    IF rows = {} THEN <<>>
    ELSE LET first == CHOOSE m \in rows :
                 \A n \in rows : \/ m.timestamp < n.timestamp
                                  \/ (m.timestamp = n.timestamp /\ m.id <= n.id)
         IN <<first>> \o Ordered(rows \ {first})

\* escapeXml (message-router.ts:81-82).
EscapeXml(text) ==
    [i \in 1..Len(text) |->
        IF text[i] = "&" THEN "&amp;" ELSE IF text[i] = "<" THEN "&lt;"
        ELSE IF text[i] = ">" THEN "&gt;" ELSE IF text[i] = "\"" THEN "&quot;"
        ELSE text[i]]

\* One line of the prompt (message-router.ts:83).
MessageLine(m) ==
    <<"<message sender=\"">> \o EscapeXml(<<m.sender_name>>) \o <<"\" time=\"", ToString(m.timestamp), "\">">>
    \o EscapeXml(m.content) \o <<"</message>">>

\* lines.join('\n').
RECURSIVE JoinLines(_)
JoinLines(rows) ==
    IF rows = <<>> THEN <<>>
    ELSE IF Len(rows) = 1 THEN MessageLine(rows[1])
    ELSE MessageLine(rows[1]) \o <<"\n">> \o JoinLines(Tail(rows))

\* The prompt (message-router.ts:80-85).
Prompt(window) ==
    <<"<messages>", "\n">> \o JoinLines(Ordered(window)) \o <<"\n", "</messages>">>

\* JavaScript truthiness of a string | null | undefined value.
Truthy(val) == val.t = "string" /\ Len(val.v) > 0

\* The value runAgent returns (message-router.ts:137-160): null on a
\* rejection or an error status, else output.result.
RunAgentResult(outcome) ==
    IF outcome.state = "rejected" THEN JNull
    ELSE IF outcome.value.status = "error" THEN JNull
    ELSE outcome.value.result

\* message-router.ts:146: whether the session handle is replaced.
StoresSession(outcome) ==
    outcome.state = "resolved" /\ Truthy(outcome.value.newSessionId)

\* message-router.ts:101: whether the watermark advances and the result is
\* sent.
AdvanceAlways(response) == TRUE
Advance(response) == Truthy(response)

\* What runContainerAgent may settle with: its own error outputs, what the
\* close handler makes of a conforming child's output, or a rejection.
RouterDocs ==
    { Doc("success", JStr(<<"ok">>), JStr(<<"s1">>), JUndef),
      Doc("success", JStr(<<"ok">>), JUndef, JUndef),
      Doc("success", JStr(<<>>), JStr(<<"s2">>), JUndef),
      Doc("error", JNull, JStr(<<"s2">>), JStr(<<"x">>)) }

RunnerOutcomes ==
    { [state |-> "rejected", value |-> JNullDoc],
      [state |-> "resolved", value |-> TimeoutOutput] }
    \cup { [state |-> "resolved", value |-> CloseOutcome("0", Framed(d))] :
             d \in RouterDocs }

(***************************************************************************)
(* The IPC snapshot writer (container-runner.ts, stored as                 *)
(* src/container/build-docker.sh lines 376-404) and what runAgent hands to *)
(* it (message-router.ts:114-135).                                         *)
(***************************************************************************)
\* A row of the task store, as db.getAllTasks returns it.
DbTask(id, folder) ==
    [id |-> id, group_folder |-> folder, prompt |-> "p", schedule_type |-> "once",
     schedule_value |-> "v", status |-> "active", next_run |-> "null",
     chat_jid |-> "jid", created_at |-> "t0"]

\* The projection of message-router.ts:122-130.
TaskProjection(t) ==
    [id |-> t.id, group_folder |-> t.group_folder, prompt |-> t.prompt,
     schedule_type |-> t.schedule_type, schedule_value |-> t.schedule_value,
     status |-> t.status, next_run |-> t.next_run]

MapTasks(rows) == [i \in 1..Len(rows) |-> TaskProjection(rows[i])]

\* db.getAllTasks(): the task store of the host.
GetAllTasks ==
    << DbTask("t1", "family"), DbTask("t2", MAIN_GROUP_FOLDER),
       DbTask("t3", "work"), DbTask("t4", "family") >>

\* db.getAllChats(): one row per chat that has a stored message, with the
\* time of its latest message.
ChatOrder == <<"telegram@chat:1", "telegram@chat:2", "telegram@chat:9">>
ChatRow(store, jid) ==
    LET times == {m.timestamp : m \in {n \in store : n.chat_jid = jid}}
    IN [jid |-> jid, name |-> jid,
        last_message_time |-> CHOOSE t \in times : \A u \in times : t >= u]
GetAllChats(store) ==
    LET known == SelectSeq(ChatOrder, LAMBDA j : \E m \in store : m.chat_jid = j)
    IN [i \in 1..Len(known) |-> ChatRow(store, known[i])]

\* getAvailableGroups (message-router.ts:19-29).
AvailableGroup(row) ==
    [jid |-> row.jid, name |-> row.name, lastActivity |-> row.last_message_time,
     isRegistered |-> row.jid \in DOMAIN registeredGroups]
GetAvailableGroups(chats) == [i \in 1..Len(chats) |-> AvailableGroup(chats[i])]

\* JSON.stringify of a task and of a task array.
StringifyTask(t) ==
    <<"{", "id:", t.id, "group_folder:", t.group_folder, "prompt:", t.prompt,
      "schedule_type:", t.schedule_type, "schedule_value:", t.schedule_value,
      "status:", t.status, "next_run:", t.next_run, "}">>
RECURSIVE StringifyTasks(_)
StringifyTasks(tasks) ==
    IF tasks = <<>> THEN <<"[", "]">>
    ELSE IF Len(tasks) = 1 THEN <<"[">> \o StringifyTask(tasks[1]) \o <<"]">>
    ELSE <<"[">> \o StringifyTask(tasks[1]) \o <<",">>
         \o Tail(StringifyTasks(Tail(tasks)))

\* JSON.stringify of { groups, lastSync }; "<now>" stands for the ISO time
\* of the write.
StringifyGroup(g) ==
    <<"{", "jid:", g.jid, "name:", g.name, "lastActivity:", ToString(g.lastActivity),
      "isRegistered:", IF g.isRegistered THEN "true" ELSE "false", "}">>
RECURSIVE StringifyGroupList(_)
StringifyGroupList(groups) ==
    IF groups = <<>> THEN <<"[", "]">>
    ELSE IF Len(groups) = 1 THEN <<"[">> \o StringifyGroup(groups[1]) \o <<"]">>
    ELSE <<"[">> \o StringifyGroup(groups[1]) \o <<",">>
         \o Tail(StringifyGroupList(Tail(groups)))
StringifyGroups(groups) ==
    <<"{", "groups:">> \o StringifyGroupList(groups) \o <<"lastSync:", "<now>", "}">>

\* writeTasksSnapshot (lines 376-382).
FilteredTasksUnfiltered(groupFolder, isMain, tasks) == tasks
FilteredTasks(groupFolder, isMain, tasks) ==
    IF isMain THEN tasks
    ELSE SelectSeq(tasks, LAMBDA t : t.group_folder = groupFolder)
WriteTasksSnapshot(file, groupFolder, isMain, tasks) ==
    WriteFileSync(file, StringifyTasks(FilteredTasks(groupFolder, isMain, tasks)))

\* writeGroupsSnapshot (lines 391-404).
VisibleGroupsUnfiltered(isMain, groups) == groups
VisibleGroups(isMain, groups) == IF isMain THEN groups ELSE <<>>
WriteGroupsSnapshotOnce(file, groupFolder, isMain, groups) ==
    IF file.exists THEN file
    ELSE WriteFileSync(file, StringifyGroups(VisibleGroups(isMain, groups)))
WriteGroupsSnapshot(file, groupFolder, isMain, groups) ==
    WriteFileSync(file, StringifyGroups(VisibleGroups(isMain, groups)))

\* The last call of a snapshot function: which one, its arguments, and
\* whether the file existed before it.
NoWrite ==
    [fn |-> "none", folder |-> "none", isMain |-> FALSE, input |-> <<>>,
     overwrote |-> FALSE]
WriteOf(fn, folder, isMain, input, before) ==
    [fn |-> fn, folder |-> folder, isMain |-> isMain, input |-> input,
     overwrote |-> before.exists]

\* Inputs of the snapshot functions: task lists over two tasks of the
\* 'family' group and one of the main group; group lists over the chats.
TaskUniverse ==
    { TaskProjection(DbTask("t1", "family")), TaskProjection(DbTask("t2", "family")),
      TaskProjection(DbTask("t3", MAIN_GROUP_FOLDER)) }
TaskLists == UNION {[1..n -> TaskUniverse] : n \in 0..MaxTasks}
GroupLists ==
    { GetAvailableGroups(
          [i \in 1..Len(SelectSeq(ChatOrder, LAMBDA j : j \in js)) |->
              [jid |-> SelectSeq(ChatOrder, LAMBDA j : j \in js)[i],
               name |-> SelectSeq(ChatOrder, LAMBDA j : j \in js)[i],
               last_message_time |-> 1]]) : js \in SUBSET Chats }

\* A call of writeTasksSnapshot, with isMain as the callers compute it
\* (message-router.ts:114).
WriteTasksSnapshotCall ==
    /\ nwrites < MaxWrites
    /\ nwrites' = nwrites + 1
    /\ \E groupFolder \in Folders, tasks \in TaskLists :
          LET isMain == groupFolder = MAIN_GROUP_FOLDER
          IN /\ tasksFile' = [tasksFile EXCEPT ![groupFolder] =
                    WriteTasksSnapshot(tasksFile[groupFolder], groupFolder, isMain, tasks)]
             /\ lastWrite' = WriteOf("tasks", groupFolder, isMain, tasks,
                                     tasksFile[groupFolder])
    /\ UNCHANGED <<messages, lastAgentTimestamp, sessions, diskTimestamp, diskSessions,
                   turn, sent, groupsFile, lastTurn, nturns, resultStamp, reported,
                   left, covered>>
    /\ UNCHANGED runnerVars
    /\ UNCHANGED loopVars

\* A call of writeGroupsSnapshot.
WriteGroupsSnapshotCall ==
    /\ nwrites < MaxWrites
    /\ nwrites' = nwrites + 1
    /\ \E groupFolder \in Folders, groups \in GroupLists :
          LET isMain == groupFolder = MAIN_GROUP_FOLDER
          IN /\ groupsFile' = [groupsFile EXCEPT ![groupFolder] =
                    WriteGroupsSnapshot(groupsFile[groupFolder], groupFolder, isMain, groups)]
             /\ lastWrite' = WriteOf("groups", groupFolder, isMain, groups,
                                     groupsFile[groupFolder])
    /\ UNCHANGED <<messages, lastAgentTimestamp, sessions, diskTimestamp, diskSessions,
                   turn, sent, tasksFile, lastTurn, nturns, resultStamp, reported,
                   left, covered>>
    /\ UNCHANGED runnerVars
    /\ UNCHANGED loopVars

SnapshotNext ==
    \/ WriteTasksSnapshotCall
    \/ WriteGroupsSnapshotCall

IdleTurn ==
    [pc |-> "idle", msg |-> NoMessage, window |-> {}, sessionId |-> JUndef]

NoTurn ==
    [kind |-> "none", status |-> "none", response |-> JUndef, window |-> {},
     wmBefore |-> 0, sessBefore |-> JUndef, diskSessBefore |-> JUndef]

RouterInit ==
    /\ messages = {}
    /\ lastAgentTimestamp = [c \in Chats |-> 0]
    /\ sessions = [f \in Folders |-> JUndef]
    /\ diskTimestamp = [c \in Chats |-> 0]
    /\ diskSessions = [f \in Folders |-> JUndef]
    /\ turn = [c \in Chats |-> IdleTurn]
    /\ sent = <<>>
    /\ tasksFile = [f \in Folders |-> NoFile]
    /\ groupsFile = [f \in Folders |-> NoFile]
    /\ lastTurn = [c \in Chats |-> NoTurn]
    /\ nturns = 0
    /\ resultStamp = [c \in Chats |-> 0]
    /\ reported = [f \in Folders |-> JUndef]
    /\ lastWrite = NoWrite
    /\ nwrites = 0
    /\ left = [timestamp |-> [c \in Chats |-> 0], sessions |-> [f \in Folders |-> JUndef]]
    /\ covered = {}

\* loadState in a fresh process (state.ts, stored as config.ts:173-184):
\* Object.assign of what the files hold onto the empty maps.  A watermark 0
\* and a handle undefined stand for an absent key.
ObjectAssign(target, source, absent) ==
    [k \in DOMAIN target |-> IF source[k] # absent THEN source[k] ELSE target[k]]
LoadState(routerState, sessionsJson) ==
    [lastAgentTimestamp |-> ObjectAssign([c \in Chats |-> 0], routerState, 0),
     sessions |-> ObjectAssign([f \in Folders |-> JUndef], sessionsJson, JUndef)]

\* sendMessage (message-router.ts:31-48): every jid of the model is a
\* Telegram jid with a numeric chat id.
SendMessage(out, jid, text) == Append(out, [jid |-> jid, text |-> text])

\* The folder of the group of a chat (message-router.ts:61, group.folder).
GroupFolderAlwaysMain(chatJid) == MAIN_GROUP_FOLDER
GroupFolder(chatJid) == registeredGroups[chatJid]

\* runAgent up to the await of runContainerAgent (message-router.ts:114-144):
\* the session handle is read, both snapshots are written, the runner is
\* invoked.
RunAgentStart(c, msg, window) ==
    LET folder == GroupFolder(c)
        isMain == folder = MAIN_GROUP_FOLDER
        tasks == MapTasks(GetAllTasks)
        availableGroups == GetAvailableGroups(GetAllChats(messages'))
    IN /\ tasksFile' = [tasksFile EXCEPT ![folder] =
              WriteTasksSnapshot(tasksFile[folder], folder, isMain, tasks)]
       /\ groupsFile' = [groupsFile EXCEPT ![folder] =
              WriteGroupsSnapshot(groupsFile[folder], folder, isMain, availableGroups)]
       /\ lastWrite' = WriteOf("groups", folder, isMain, availableGroups,
                               groupsFile[folder])
       /\ turn' = [turn EXCEPT ![c] =
              [pc |-> "running", msg |-> msg, window |-> window,
               sessionId |-> sessions[folder]]]

\* The early returns of processMessage (message-router.ts:61-89).
MessageDropped(msg, missedMessages) ==
    \/ msg.chat_jid \notin DOMAIN registeredGroups
    \/ /\ registeredGroups[msg.chat_jid] # MAIN_GROUP_FOLDER
       /\ ~TriggerPatternTest(Trim(msg.content))
    \/ Len(Prompt(missedMessages)) = 0

\* The Telegram handler stores the message, then calls processMessage
\* (message-router.ts:50-99 and 109-144): the message is dropped, or the
\* turn runs up to the await of runContainerAgent.
ProcessMessage(msg) ==
    LET c == msg.chat_jid
        missedMessages == GetMessagesSince(messages', c, lastAgentTimestamp[c],
                                           ASSISTANT_NAME)
    IN /\ turn[c].pc = "idle"
       /\ nturns < MaxMessages
       /\ nturns' = nturns + 1
       /\ messages' = messages \cup {msg}
       /\ IF MessageDropped(msg, missedMessages)
          THEN UNCHANGED <<turn, tasksFile, groupsFile, lastWrite>>
          ELSE RunAgentStart(c, msg, missedMessages)
       /\ UNCHANGED <<lastAgentTimestamp, sessions, diskTimestamp, diskSessions,
                      sent, lastTurn, resultStamp, reported, nwrites, left, covered>>
       /\ UNCHANGED runnerVars

\* The same call where other calls may run at its awaits: processMessage up
\* to the await of sendTypingAction (message-router.ts:50-97) ...
ProcessMessageToTyping(msg) ==
    LET c == msg.chat_jid
        missedMessages == GetMessagesSince(messages', c, lastAgentTimestamp[c],
                                           ASSISTANT_NAME)
    IN /\ turn[c].pc = "idle"
       /\ nturns < MaxMessages
       /\ nturns' = nturns + 1
       /\ messages' = messages \cup {msg}
       /\ turn' = IF MessageDropped(msg, missedMessages) THEN turn
                  ELSE [turn EXCEPT ![c] =
                           [pc |-> "typing", msg |-> msg, window |-> missedMessages,
                            sessionId |-> JUndef]]
       /\ UNCHANGED <<lastAgentTimestamp, sessions, diskTimestamp, diskSessions,
                      sent, tasksFile, groupsFile, lastWrite, lastTurn, resultStamp,
                      reported, nwrites, left, covered>>
       /\ UNCHANGED runnerVars
       /\ UNCHANGED loopVars

\* ... and from there to the await of runContainerAgent (lines 99, 114-144).
TypingDone(c) ==
    /\ turn[c].pc = "typing"
    /\ UNCHANGED <<messages, nturns, lastAgentTimestamp, sessions, diskTimestamp,
                   diskSessions, sent, lastTurn, resultStamp, reported, nwrites,
                   left, covered>>
    /\ RunAgentStart(c, turn[c].msg, turn[c].window)
    /\ UNCHANGED runnerVars
    /\ UNCHANGED loopVars

\* runContainerAgent settles: the rest of runAgent (message-router.ts:146-160)
\* and of processMessage (lines 101-106).
RunnerSettles(c, outcome) ==
    LET folder == GroupFolder(c)
        msg == turn[c].msg
        response == RunAgentResult(outcome)
        sessions1 == IF StoresSession(outcome)
                     THEN [sessions EXCEPT ![folder] = outcome.value.newSessionId]
                     ELSE sessions
        stamps1 == IF Advance(response)
                   THEN [lastAgentTimestamp EXCEPT ![c] = msg.timestamp]
                   ELSE lastAgentTimestamp
    IN /\ turn[c].pc = "running"
       /\ sessions' = sessions1
       /\ lastAgentTimestamp' = stamps1
       \* saveJson(sessions.json) at line 148, saveState() at line 103
       /\ diskSessions' = IF StoresSession(outcome) \/ Advance(response)
                          THEN sessions1 ELSE diskSessions
       /\ diskTimestamp' = IF Advance(response) THEN stamps1 ELSE diskTimestamp
       /\ sent' = IF Advance(response)
                  THEN SendMessage(sent, c,
                           MESSAGE_PREFIX \o <<ASSISTANT_NAME, ": ">> \o response.v)
                  ELSE sent
       /\ lastTurn' = [lastTurn EXCEPT ![c] =
              [kind |-> "done",
               status |-> IF outcome.state = "rejected" THEN "threw"
                          ELSE outcome.value.status,
               response |-> response,
               window |-> turn[c].window,
               wmBefore |-> lastAgentTimestamp[c],
               sessBefore |-> sessions[folder],
               diskSessBefore |-> diskSessions[folder]]]
       /\ resultStamp' = IF response.t = "string"
                         THEN [resultStamp EXCEPT ![c] = msg.timestamp]
                         ELSE resultStamp
       /\ reported' = IF /\ outcome.state = "resolved"
                         /\ outcome.value.status = "success"
                         /\ outcome.value.newSessionId.t = "string"
                      THEN [reported EXCEPT ![folder] = outcome.value.newSessionId]
                      ELSE reported
       /\ left' = IF outcome.state = "resolved" /\ outcome.value.status = "success"
                  THEN [timestamp |-> [left.timestamp EXCEPT ![c] = stamps1[c]],
                        sessions |-> [left.sessions EXCEPT ![folder] = sessions1[folder]]]
                  ELSE left
       /\ covered' = IF response.t = "string"
                     THEN covered \cup turn[c].window ELSE covered
       /\ turn' = [turn EXCEPT ![c] = IdleTurn]
       /\ UNCHANGED <<messages, nturns, tasksFile, groupsFile, lastWrite, nwrites>>
       /\ UNCHANGED runnerVars

AllIdle == \A c \in Chats : turn[c].pc = "idle"

\* The caller (the Telegram polling loop) awaits each processMessage call
\* before the next.
TelegramMessage ==
    /\ AllIdle
    /\ \E msg \in NewMessages(nturns + 1) : ProcessMessage(msg)
    /\ UNCHANGED loopVars

RunnerDone ==
    /\ \E c \in DOMAIN registeredGroups, outcome \in RunnerOutcomes :
          RunnerSettles(c, outcome)
    /\ UNCHANGED loopVars

RouterNext ==
    \/ TelegramMessage
    \/ RunnerDone

\* Calls of processMessage for different chats, overlapping at their awaits.
\* The messages are those of the registered chats, written by 'alice', with
\* and without the trigger.
ConcurrentMessages(id) ==
    {m \in NewMessages(id) :
        /\ m.chat_jid \in DOMAIN registeredGroups
        /\ m.sender_name = "alice"
        /\ m.content \in { <<" ", "@neo", ",", "hi">>, <<"hi", " ", "@Neo">> }}
ConcurrentMessage ==
    \E msg \in ConcurrentMessages(nturns + 1) : ProcessMessageToTyping(msg)
TypingReturns == \E c \in DOMAIN registeredGroups : TypingDone(c)
ConcurrentNext ==
    \/ ConcurrentMessage
    \/ TypingReturns
    \/ RunnerDone

(***************************************************************************)
(* Part III: the Telegram polling loop (telegram.ts, stored as             *)
(* src/unnamed/part_000).  An update is a text message, a message without  *)
(* text ("photo") or an update without ctx.message ("edited"); from is the *)
(* sender (id 0: msg.from absent); date is in seconds.                     *)
(***************************************************************************)
Users ==
    { [id |-> 7, username |-> "alice", first_name |-> "Al"],
      [id |-> 8, username |-> "", first_name |-> "bob"],
      [id |-> 0, username |-> "", first_name |-> ""] }

\* The chat ids of the model and the jid of line 40.
ChatIds == {1, 2, 9}
ChatJidOf(chatId) ==
    IF chatId = 1 THEN "telegram@chat:1"
    ELSE IF chatId = 2 THEN "telegram@chat:2" ELSE "telegram@chat:9"

\* What Telegram may deliver: from the user 7 a text in the main chat, a
\* text with and one without the trigger in the chat of 'family', a text in
\* the chat without a group and a photo; a text from the user 8 and one
\* without a sender; an edited message.
UpdateShapes ==
    LET shape(k, u, ch, txt) == [kind |-> k, from |-> u, chat |-> ch, text |-> txt]
        user(n) == CHOOSE u \in Users : u.id = n
    IN { shape("text", user(7), 1, <<"hi", " ", "@Neo">>),
         shape("text", user(7), 2, <<" ", "@neo", ",", "hi">>),
         shape("text", user(7), 2, <<"hi", " ", "@Neo">>),
         shape("text", user(7), 9, <<" ", "@neo", ",", "hi">>),
         shape("photo", user(7), 1, <<>>),
         shape("text", user(8), 1, <<"hi", " ", "@Neo">>),
         shape("text", user(0), 1, <<"hi", " ", "@Neo">>),
         shape("edited", user(7), 1, <<"hi", " ", "@Neo">>) }

AllowLists == { {}, {7} }

\* telegramToNewMessage (lines 32-46): the timestamp is the ISO string of
\* the second msg.date, so that messages of one second bear one timestamp.
SenderName(from) ==
    IF from.username # "" THEN from.username
    ELSE IF from.first_name # "" THEN from.first_name ELSE "Unknown"
TelegramToNewMessage(u) ==
    [id |-> u.message_id, chat_jid |-> ChatJidOf(u.chat),
     sender_name |-> SenderName(u.from), content |-> u.text, timestamp |-> u.date]

\* The middleware (lines 61-81): "next" or "reject".
MiddlewareAnySender(u, allowed) ==
    IF u.kind = "edited" THEN "next"
    ELSE IF u.from.id = 0 THEN "reject"
    ELSE "next"
Middleware(u, allowed) ==
    IF u.kind = "edited" THEN "next"
    ELSE IF u.from.id = 0 THEN "reject"
    ELSE IF u.from.id \notin allowed THEN "reject"
    ELSE "next"

\* bot.on('message:text') (line 84): the handler runs for a message with text.
HandlerMatches(u) == u.kind = "text"

\* getUpdates({ offset }) (line 122): Telegram returns the updates whose
\* update_id is at least the offset, in the order of their ids.
PendingUpdates(all, off) == SelectSeq(all, LAMBDA u : u.update_id >= off)

\* Line 126.
NextOffsetSame(u) == u.update_id
NextOffset(u) == u.update_id + 1

LoopStart ==
    /\ updates = <<>>
    /\ offset = 0
    /\ batch = <<>>
    /\ loop = "poll"
    /\ completed = <<>>
    /\ calls = <<>>
LoopInit == LoopStart /\ TELEGRAM_ALLOWED_USER_IDS = {}

\* Telegram receives something for the bot; the dates of the updates do not
\* decrease.
TelegramUpdate ==
    /\ Len(updates) < MaxMessages
    /\ \E sh \in UpdateShapes, date \in 1..MaxTimestamp :
          /\ updates # <<>> => date >= updates[Len(updates)].date
          /\ updates' = Append(updates,
                 [update_id |-> Len(updates) + 1, message_id |-> Len(updates) + 1,
                  kind |-> sh.kind, from |-> sh.from, chat |-> sh.chat,
                  text |-> sh.text, date |-> date])
    /\ UNCHANGED <<offset, batch, loop, completed, calls, TELEGRAM_ALLOWED_USER_IDS>>
    /\ UNCHANGED routerVars
    /\ UNCHANGED runnerVars

\* poll (lines 119-122): the long poll returns with at least one update.
GetUpdates ==
    /\ loop = "poll"
    /\ batch = <<>>
    /\ PendingUpdates(updates, offset) # <<>>
    /\ batch' = PendingUpdates(updates, offset)
    /\ UNCHANGED <<updates, offset, loop, completed, calls, TELEGRAM_ALLOWED_USER_IDS>>
    /\ UNCHANGED routerVars
    /\ UNCHANGED runnerVars

\* Lines 124-126 after handleUpdate returned: the offset moves on.
UpdateHandled(u) ==
    /\ offset' = NextOffset(u)
    /\ batch' = Tail(batch)
    /\ completed' = Append(completed, u.update_id)
    /\ loop' = "poll"

\* botClient.handleUpdate(update) (line 124): the middleware, then the
\* handler of lines 84-104, up to the return of handleUpdate or to the await
\* of the container turn inside processMessage.
HandleUpdate ==
    /\ loop = "poll"
    /\ batch # <<>>
    /\ LET u == batch[1]
           newMessage == TelegramToNewMessage(u)
       IN IF Middleware(u, TELEGRAM_ALLOWED_USER_IDS) = "next" /\ HandlerMatches(u)
          THEN /\ calls' = calls \o << <<"storeChatMetadata", newMessage.id>>,
                                       <<"storeNewMessage", newMessage.id>>,
                                       <<"processMessage", newMessage.id>> >>
               /\ ProcessMessage(newMessage)
               /\ IF turn'[newMessage.chat_jid].pc = "running"
                  THEN /\ loop' = "await"
                       /\ UNCHANGED <<offset, batch, completed>>
                  ELSE UpdateHandled(u)
          ELSE /\ UpdateHandled(u)
               /\ UNCHANGED calls
               /\ UNCHANGED routerVars
               /\ UNCHANGED runnerVars
    /\ UNCHANGED <<updates, TELEGRAM_ALLOWED_USER_IDS>>

\* The container turn settles: processMessage, the handler and handleUpdate
\* return.
TurnDone ==
    /\ loop = "await"
    /\ \E outcome \in RunnerOutcomes :
          RunnerSettles(ChatJidOf(batch[1].chat), outcome)
    /\ UpdateHandled(batch[1])
    /\ UNCHANGED <<updates, calls, TELEGRAM_ALLOWED_USER_IDS>>

TelegramNext ==
    \/ TelegramUpdate
    \/ GetUpdates
    \/ HandleUpdate
    \/ TurnDone

(***************************************************************************)
(* Specifications.                                                         *)
(***************************************************************************)
Init == RunnerInit /\ RouterInit /\ LoopInit
Next == RunnerNext
Spec == Init /\ [][Next]_vars

RouterSpecInit == RunnerInit /\ groupTimeout = 0 /\ RouterInit /\ LoopInit
RouterSpec == RouterSpecInit /\ [][RouterNext]_vars

\* runContainerAgent up to the spawn, for every group and host of the model.
MountSpecInit ==
    /\ RunnerStart
    /\ groupTimeout = 0
    /\ group \in Groups
    /\ hostFs \in Hosts
    /\ RouterInit
    /\ LoopInit
MountNext == Invoke
MountSpec == MountSpecInit /\ [][MountNext]_vars

\* The snapshot functions called with any arguments, any number of times.
SnapshotSpec == RouterSpecInit /\ [][SnapshotNext]_vars

\* processMessage called for one chat while calls for other chats are in
\* progress.
ConcurrentSpec == RouterSpecInit /\ [][ConcurrentNext]_vars

\* The polling loop over the router, for an empty and a non-empty allow list.
TelegramSpecInit ==
    /\ RunnerInit /\ groupTimeout = 0
    /\ RouterInit
    /\ LoopStart
    /\ TELEGRAM_ALLOWED_USER_IDS \in AllowLists
TelegramSpec == TelegramSpecInit /\ [][TelegramNext]_vars

(***************************************************************************)
(* Vocabulary of the properties.                                           *)
(***************************************************************************)
\* pat occurs in s at (1-based) position i.
Occurs(pat, s, i) ==
    /\ i \in 1..(Len(s) - Len(pat) + 1)
    /\ SubSeq(s, i, i + Len(pat) - 1) = pat

\* The first handler that ran in this invocation.
FirstHandled(h) == Len(handled) >= 1 /\ handled[1] = h

\* The child closed with code 0 before the timer fired.
ZeroExitTurn == FirstHandled("close") /\ exitCode = "0"

\* The child closed with a non-zero code before the timer fired.
NonZeroExitTurn == FirstHandled("close") /\ exitCode \notin {"0", "none"}

\* A well-formed ContainerOutput (lines 170-175).
WellFormedOutput(o) ==
    /\ o.t = "object"
    /\ o.status \in {"success", "error"}
    /\ o.result.t \in {"null", "string"}
    /\ o.newSessionId.t \in {"undefined", "string"}
    /\ o.error.t \in {"undefined", "string"}

WellFormedPayload(text) ==
    ParseJson(text).ok /\ WellFormedOutput(ParseJson(text).val)

ValidOutputs == {o \in JsonUniverse : WellFormedOutput(o)}

\* The positions (i, j) of a start marker and of an end marker after it.
MarkerPairs(s) ==
    {p \in (1..Len(s)) \X (1..Len(s)) :
        /\ Occurs(OUTPUT_START_MARKER, s, p[1])
        /\ Occurs(OUTPUT_END_MARKER, s, p[2])
        /\ p[2] >= p[1] + Len(OUTPUT_START_MARKER)}

\* The text strictly between the markers of a pair.
Between(s, p) == SubSeq(s, p[1] + Len(OUTPUT_START_MARKER), p[2] - 1)

\* No start marker, no end marker, or no end marker after a start marker.
MarkersMalformed(s) ==
    ~ \E i, j \in 1..Len(s) :
        Occurs(OUTPUT_START_MARKER, s, i) /\ Occurs(OUTPUT_END_MARKER, s, j) /\ j > i

MarkerFree(s) ==
    ~Includes(s, OUTPUT_START_MARKER) /\ ~Includes(s, OUTPUT_END_MARKER)

\* The lines of a text, by the position each starts at, and the last line
\* that holds anything but blanks.
LineStarts(s) == {1} \cup {i + 1 : i \in {k \in 1..Len(s) : s[k] = "\n"}}
LineAt(s, a) ==
    LET nls == {k \in a..Len(s) : s[k] = "\n"}
        e == IF nls = {} THEN Len(s) ELSE (CHOOSE k \in nls : \A m \in nls : k <= m) - 1
    IN IF a > e THEN <<>> ELSE SubSeq(s, a, e)
NonBlank(l) == \E k \in 1..Len(l) : l[k] \notin WhiteSpace
LastNonBlankLine(s) ==
    LET good == {a \in LineStarts(s) : NonBlank(LineAt(s, a))}
    IN IF good = {} THEN <<>>
       ELSE LineAt(s, CHOOSE a \in good : \A b \in good : a >= b)

(***************************************************************************)
(* Part I: properties of runContainerAgent.                                *)
(***************************************************************************)

\* C1 (as claimed): on every failure path - spawn error, timeout, non-zero
\* exit, or a zero exit whose payload is not a well-formed ContainerOutput -
\* the invocation has resolved and the resolved value has status "error".
C1_FailurePathsResolveError ==
    (\/ FirstHandled("error")
     \/ FirstHandled("timeout")
     \/ NonZeroExitTurn
     \/ (ZeroExitTurn /\ ~WellFormedPayload(jsonLine)))
    => (promise.state = "resolved" /\ promise.value.status = "error")

\* C2: once the timer has fired, the child is killed (or already closed) and
\* the invocation's result is the timeout error, whatever close event and
\* stdout follow; the timer's delay is the group's override, else the global
\* default.
C2_TimeoutResultIsFinal ==
    /\ timer # "unset" =>
          timerDelay = (IF groupTimeout # 0 THEN groupTimeout ELSE CONTAINER_TIMEOUT)
    /\ (\E i \in 1..Len(handled) : handled[i] = "timeout") =>
          /\ child \in {"killed", "closed"}
          /\ promise.state = "resolved"
          /\ promise.value =
                JObj("error", JNull, JUndef, JStr(<<"Container timed out">>))

\* C2 witness: the killed child closed with code 0 and a parseable success
\* payload on stdout, after the timeout.
C2_Witness ==
    /\ handled = <<"timeout", "close">>
    /\ exitCode = "0"
    /\ WellFormedPayload(jsonLine)
    /\ ParseJson(jsonLine).val.status = "success"
    /\ promise.value = TimeoutOutput

\* C3 (as claimed): when the stdout of a zero-exit child holds a start marker
\* followed later by an end marker, the payload is the trimmed text strictly
\* between a start marker and an end marker after it, and a well-formed
\* parsed output is the result.
C3_MarkerPayload ==
    (ZeroExitTurn /\ MarkerPairs(stdout) # {}) =>
        \E p \in MarkerPairs(stdout) :
            /\ jsonLine = Trim(Between(stdout, p))
            /\ WellFormedPayload(jsonLine) => promise.value = ParseJson(jsonLine).val

\* C4: when the marker pair of a zero-exit child's stdout is missing or
\* malformed, the payload is the last non-blank line of stdout (up to blanks
\* around it) and the result is what the parser makes of that line.
C4_FallbackLastLine ==
    (ZeroExitTurn /\ MarkersMalformed(stdout)) =>
        /\ Trim(jsonLine) = Trim(LastNonBlankLine(stdout))
        /\ promise.value = ParsedOutcome(LastNonBlankLine(stdout))

\* C4 witness: stdout without a start marker, several lines, the last
\* non-blank one a success document.
C4_Witness ==
    /\ ZeroExitTurn
    /\ MarkersMalformed(stdout)
    /\ ~Includes(stdout, OUTPUT_START_MARKER)
    /\ Includes(stdout, <<"\n">>)
    /\ Len(stdout) > Len(jsonLine)
    /\ promise.value.status = "success"

\* C5 (as claimed): a zero-exit child that prints noise (free of marker
\* text), the start marker, the serialization of a valid output and the end
\* marker, none of it cut by the cap, makes the invocation resolve with that
\* output.
C5_RoundTrip ==
    (ZeroExitTurn /\ ~stdoutTruncated) =>
        \A o \in ValidOutputs :
            (\E k \in 0..Len(stdout) :
                /\ MarkerFree(SubSeq(stdout, 1, k))
                /\ SubSeq(stdout, k + 1, Len(stdout)) = Framed(Stringify(o)))
            => promise.value = o

\* Each buffer is a prefix of what its stream delivered, within the cap.
BuffersWithinCap ==
    /\ IsPrefix(stdout, stdoutRecv)
    /\ Len(stdout) <= CONTAINER_MAX_OUTPUT_SIZE
    /\ IsPrefix(stderr, stderrRecv)
    /\ Len(stderr) <= CONTAINER_MAX_OUTPUT_SIZE

\* C6: each buffer is a prefix of what its stream delivered and never longer
\* than the cap; once a stream's truncation flag is set the flag stays set
\* and the buffer never changes, whatever chunks follow.
C6_CappedAccumulation ==
    /\ []BuffersWithinCap
    /\ [][/\ stdoutTruncated => (stdoutTruncated' /\ stdout' = stdout)
          /\ stderrTruncated => (stderrTruncated' /\ stderr' = stderr)]_vars

\* C6 witness: stdout was cut at the cap and a later chunk was consumed
\* without being stored.
C6_Witness ==
    /\ stdoutTruncated
    /\ ~stderrTruncated
    /\ dropped > 0
    /\ Len(stdout) = CONTAINER_MAX_OUTPUT_SIZE
    /\ Len(stdoutRecv) > Len(stdout)

C8_TimerCancelled ==
    (\E i \in 1..Len(handled) : handled[i] \in {"close", "error"}) =>
        /\ timer # "armed"
        /\ \A i, j \in 1..Len(handled) :
              (i < j /\ handled[i] \in {"close", "error"}) => handled[j] # "timeout"

\* C8 witness: a spawn error, then the close event of the failed spawn, with
\* the timer cancelled before it fired.
C8_Witness ==
    /\ handled = <<"error", "close">>
    /\ timer = "cleared"

(***************************************************************************)
(* Part II: properties of the router.                                      *)
(***************************************************************************)
\* The last completed turn of the chat ended with a null result.
NullResultTurn(c) ==
    lastTurn[c].kind = "done" /\ lastTurn[c].response.t \in {"null", "undefined"}

\* C9: after a turn with a null result the chat's watermark is the one the
\* turn started with, and the window of the chat's next turn contains the
\* window of that turn.
C9_NullResultKeepsWatermark ==
    \A c \in Chats :
        NullResultTurn(c) =>
            /\ lastAgentTimestamp[c] = lastTurn[c].wmBefore
            /\ turn[c].pc = "running" => lastTurn[c].window \subseteq turn[c].window

\* C9 witness: a turn failed with a non-empty window and the next turn of the
\* same chat is running.
C9_Witness ==
    \E c \in Chats :
        /\ NullResultTurn(c)
        /\ lastTurn[c].status = "error"
        /\ lastTurn[c].window # {}
        /\ turn[c].pc = "running"

\* C10 (as claimed): after a turn whose runner output has status "error" the
\* group's session handle, in memory and on disk, is the one from before the
\* turn.
C10_ErrorKeepsSession ==
    \A c \in DOMAIN registeredGroups :
        (lastTurn[c].kind = "done" /\ lastTurn[c].status = "error") =>
            /\ sessions[registeredGroups[c]] = lastTurn[c].sessBefore
            /\ diskSessions[registeredGroups[c]] = lastTurn[c].diskSessBefore

\* C11 (as claimed): the stored watermark of a chat never decreases, whatever
\* the timestamps of the messages and the order they arrive in.
C11_WatermarkMonotone ==
    [][\A c \in Chats : lastAgentTimestamp'[c] >= lastAgentTimestamp[c]]_vars

\* C12 (as claimed): the stored watermark of a chat is the timestamp of the
\* triggering message of the most recent turn that returned a string (the
\* empty string included), or its initial value when no turn returned one.
C12_WatermarkIsLastResult ==
    \A c \in Chats : lastAgentTimestamp[c] = resultStamp[c]

\* C13 (as claimed): every runner invocation passes the newSessionId most
\* recently reported by a successful earlier turn of the group (none if there
\* was none), and a stored session handle is never removed.
C13_SessionContinuity ==
    /\ [](\A c \in DOMAIN registeredGroups :
            turn[c].pc = "running" =>
                turn[c].sessionId = reported[registeredGroups[c]])
    /\ [][\A f \in Folders : sessions[f].t = "string" => sessions'[f].t = "string"]_vars

\* The trigger prefix as the specification words it: after the blanks around
\* the content are dropped, the content starts with '@' and the assistant's
\* name in any letter case, and a word character does not follow.
LowerCase(tok) == IF tok \in {"@Neo", "@neo", "@NEO"} THEN "@neo" ELSE tok
MatchesTriggerPrefix(content) ==
    \E k \in 1..Len(content) :
        /\ \A j \in 1..(k - 1) : content[j] \in WhiteSpace
        /\ LowerCase(content[k]) = "@neo"
        /\ k < Len(content) => content[k + 1] \notin WordTokens

\* The message may start a turn.
Qualifies(m) ==
    /\ m.chat_jid \in {"telegram@chat:1", "telegram@chat:2"}
    /\ \/ m.chat_jid = "telegram@chat:1"
       \/ MatchesTriggerPrefix(m.content)

\* C14: a processMessage call starts a turn only for a message of a
\* registered chat that is of the main group or matches the trigger prefix;
\* for any other message no snapshot is written, the runner is not invoked,
\* nothing is sent and watermark and session state stay as they were.
C14_TriggerGate ==
    [][nturns' = nturns + 1 =>
          \A m \in messages' \ messages :
              /\ turn' # turn => Qualifies(m)
              /\ ~Qualifies(m) =>
                    /\ turn' = turn
                    /\ tasksFile' = tasksFile /\ groupsFile' = groupsFile
                    /\ sent' = sent
                    /\ lastAgentTimestamp' = lastAgentTimestamp
                    /\ diskTimestamp' = diskTimestamp
                    /\ sessions' = sessions /\ diskSessions' = diskSessions]_vars

\* C14 witness: in the non-main chat '@Neox' was dropped (no turn ran, no
\* snapshot existed) and ' @neo,hi' then started a turn.
C14_Witness ==
    LET c == "telegram@chat:2"
    IN /\ nturns = 2
       /\ \A d \in Chats : lastTurn[d] = NoTurn
       /\ \E m \in messages :
             m.id = 1 /\ m.chat_jid = c /\ m.content = <<"@Neo", "x">>
       /\ turn[c].pc = "running"
       /\ turn[c].msg.id = 2
       /\ turn[c].msg.content = <<" ", "@neo", ",", "hi">>
       /\ ~lastWrite.overwrote
       /\ sent = <<>>

\* C15 (as claimed): the runner is invoked, and the snapshots are written,
\* only for a window that is not empty.
C15_EmptyWindowNoTurn ==
    \A c \in Chats : turn[c].pc = "running" => turn[c].window # {}

(***************************************************************************)
(* Part III: properties of the snapshot functions.                         *)
(***************************************************************************)
\* The tasks of a list that a folder owns, in the order of the list.
OwnIndexes(tasks, folder) == {i \in 1..Len(tasks) : tasks[i].group_folder = folder}
OwnTasks(tasks, folder) ==
    LET own == OwnIndexes(tasks, folder)
    IN [k \in 1..Cardinality(own) |->
           tasks[CHOOSE i \in own : Cardinality({j \in own : j < i}) = k - 1]]

\* The text of the groups array in available_groups.json, without its
\* brackets.
GroupsArray(text) == SubSeq(text, 4, Len(text) - 4)

\* C16: after writeTasksSnapshot the file of the folder holds, and holds
\* only, the serialization of the tasks the folder owns, in input order, for
\* a non-main group, and of the whole input list, in order, for the main
\* group, whatever the file held before.
C16_TasksSnapshot ==
    lastWrite.fn = "tasks" =>
        LET file == tasksFile[lastWrite.folder]
            expected == IF lastWrite.folder = MAIN_GROUP_FOLDER
                        THEN lastWrite.input
                        ELSE OwnTasks(lastWrite.input, lastWrite.folder)
        IN /\ file.exists
           /\ file.text = StringifyTasks(expected)

\* C16 witness: the file of the non-main group existed and was rewritten
\* from a list that holds a task of the main group before a task of its own.
C16_Witness ==
    /\ lastWrite.fn = "tasks"
    /\ lastWrite.folder = "family"
    /\ lastWrite.overwrote
    /\ Len(lastWrite.input) = 2
    /\ lastWrite.input[1].group_folder = MAIN_GROUP_FOLDER
    /\ lastWrite.input[2].group_folder = "family"
    /\ tasksFile["family"].text = StringifyTasks(<<lastWrite.input[2]>>)

\* C17: the groups array in the available_groups.json of a non-main group is
\* empty, and what the snapshot functions write for a non-main group is what
\* they write from any other input that holds the same tasks of that group
\* (and any tasks of other groups, and any list of chats).
C17_SnapshotConfidentiality ==
    /\ \A f \in Folders \ {MAIN_GROUP_FOLDER} :
          groupsFile[f].exists => GroupsArray(groupsFile[f].text) = <<>>
    /\ (lastWrite.fn = "tasks" /\ lastWrite.folder # MAIN_GROUP_FOLDER) =>
          \A other \in TaskLists :
              OwnTasks(other, lastWrite.folder) = OwnTasks(lastWrite.input, lastWrite.folder)
              => WriteTasksSnapshot(NoFile, lastWrite.folder, FALSE, other)
                     = tasksFile[lastWrite.folder]
    /\ (lastWrite.fn = "groups" /\ lastWrite.folder # MAIN_GROUP_FOLDER) =>
          \A other \in GroupLists :
              WriteGroupsSnapshot(NoFile, lastWrite.folder, FALSE, other)
                  = groupsFile[lastWrite.folder]

\* C17 witness: both snapshots of the non-main group are written, the groups
\* snapshot last and from a list of three chats, while the main group's
\* snapshot lists chats.
C17_Witness ==
    /\ lastWrite.fn = "groups"
    /\ lastWrite.folder = "family"
    /\ Len(lastWrite.input) = 3
    /\ groupsFile["family"].exists
    /\ tasksFile["family"].exists

(***************************************************************************)
(* Part IV: properties of the mounts of one invocation.                    *)
(***************************************************************************)
\* The line assigns a variable of the allow-set: blanks at its start aside,
\* it is the name of the variable and then '='.
AssignsAllowed(line) ==
    \E k \in 1..(Len(line) - 1) :
        /\ \A j \in 1..(k - 1) : line[j] \in WhiteSpace
        /\ line[k] \in {"CLAUDE_CODE_OAUTH_TOKEN", "ANTHROPIC_API_KEY",
                        "ANTHROPIC_BASE_URL", "ANTHROPIC_AUTH_TOKEN", "TZ"}
        /\ line[k + 1] = "="

\* The lines of the host's .env file, and the lines of a text that a newline
\* ends.
HostEnvLines ==
    IF hostFs.env.exists
    THEN {hostFs.env.lines[i] : i \in 1..Len(hostFs.env.lines)}
    ELSE {}
LinesOf(text) == {LineAt(text, a) : a \in {b \in LineStarts(text) : b <= Len(text)}}

\* The positions of the env directory in the mount list.
EnvMounts == {i \in 1..Len(mounts) : mounts[i].containerPath = "/workspace/env-dir"}

\* C18: the mount list is, in this order: for the main group the project
\* root and the group directory, for another group the group directory and,
\* if it exists, the global directory read-only; the session directory at
\* /home/user; the IPC directory; the env directory read-only if the
\* filtered env file has content; the accepted additional mounts.  The
\* project root is not mounted for a non-main group.
C18_MountOrder ==
    mounts # <<>> =>
        LET isMain == group.folder = MAIN_GROUP_FOLDER
            groupDir == [hostPath |-> <<"cwd", "groups", group.folder>>,
                         containerPath |-> "/workspace/group", readonly |-> FALSE]
            first ==
                IF isMain
                THEN << [hostPath |-> <<"cwd">>, containerPath |-> "/workspace/project",
                         readonly |-> FALSE], groupDir >>
                ELSE IF hostFs.globalDir
                THEN << groupDir,
                        [hostPath |-> <<"cwd", "groups", "global">>,
                         containerPath |-> "/workspace/global", readonly |-> TRUE] >>
                ELSE << groupDir >>
            always ==
                << [hostPath |-> <<"cwd", "data", "sessions", group.folder>>,
                    containerPath |-> "/home/user", readonly |-> FALSE],
                   [hostPath |-> <<"cwd", "data", "ipc", group.folder>>,
                    containerPath |-> "/workspace/ipc", readonly |-> FALSE] >>
            env ==
                IF \E l \in HostEnvLines : AssignsAllowed(l)
                THEN << [hostPath |-> <<"cwd", "data", "env">>,
                         containerPath |-> "/workspace/env-dir", readonly |-> TRUE] >>
                ELSE <<>>
        IN /\ mounts = first \o always \o env
                       \o ValidateAdditionalMounts(group.additionalMounts, isMain)
           /\ ~isMain => \A i \in 1..Len(mounts) : mounts[i].hostPath # <<"cwd">>

\* C18 witness: a non-main group on a host with a global directory and an
\* env file with content, with two accepted additional mounts behind the
\* five fixed ones; a request was dropped.
C18_Witness ==
    /\ pc = "spawned"
    /\ group.folder = "family"
    /\ Len(group.additionalMounts) = 2
    /\ Len(mounts) = 6
    /\ mounts[2].containerPath = "/workspace/global"
    /\ mounts[5].containerPath = "/workspace/env-dir"
    /\ mounts[6] = group.additionalMounts[2]

\* C19 (as claimed): the container paths of the mounts handed to the
\* container are pairwise distinct.
C19_ContainerPathsUnique ==
    pc = "spawned" =>
        \A i, j \in 1..Len(mounts) :
            i # j => mounts[i].containerPath # mounts[j].containerPath

\* C20: the env directory is mounted, read-only, exactly when a line of the
\* host's .env assigns a variable of the allow-set, and then every line of
\* the env file in it is such a line of the host's file.
C20_EnvFiltering ==
    pc = "spawned" =>
        /\ EnvMounts # {} <=> \E l \in HostEnvLines : AssignsAllowed(l)
        /\ \A i \in EnvMounts :
              mounts[i].readonly /\ mounts[i].hostPath = <<"cwd", "data", "env">>
        /\ EnvMounts # {} =>
              /\ envDirFile.exists
              /\ \A l \in LinesOf(envDirFile.text) : l \in HostEnvLines /\ AssignsAllowed(l)

\* C20 witness: of the lines 'SECRET=v' and ' TZ=v' the second alone is in
\* the mounted env file.
C20_Witness ==
    /\ pc = "spawned"
    /\ hostFs.env.exists
    /\ hostFs.env.lines = << <<"SECRET", "=", "v">>, <<" ", "TZ", "=", "v">> >>
    /\ EnvMounts # {}
    /\ envDirFile.text = <<" ", "TZ", "=", "v", "\n">>

(***************************************************************************)
(* Part V: properties of persistence, of the snapshots of a turn and of    *)
(* forwarding.                                                             *)
(***************************************************************************)
\* C21 (as claimed): while no turn is in progress the files hold the maps
\* of the memory, and loadState in a restarted host yields the watermark and
\* the session handle that the last successful turn of every chat and group
\* left.
C21_RestartRestores ==
    AllIdle =>
        /\ diskTimestamp = lastAgentTimestamp
        /\ diskSessions = sessions
        /\ LoadState(diskTimestamp, diskSessions).lastAgentTimestamp = left.timestamp
        /\ LoadState(diskTimestamp, diskSessions).sessions = left.sessions

C23_ForwardsResult ==
    [][\A c \in DOMAIN registeredGroups :
          IF turn[c].pc = "running" /\ turn'[c].pc = "idle"
          THEN IF lastTurn'[c].response.t = "string"
               THEN sent' = Append(sent,
                       [jid |-> c,
                        text |-> MESSAGE_PREFIX \o <<ASSISTANT_NAME, ": ">>
                                 \o lastTurn'[c].response.v])
               ELSE sent' = sent
          ELSE turn'[c] # turn[c] => sent' = sent]_vars

(***************************************************************************)
(* Part VI: properties of overlapping turns.                               *)
(***************************************************************************)
\* C24: a step of the turn of one chat leaves the session handle, the
\* watermark and the snapshot files of every other group as they are, in
\* memory and on disk; and while a turn is in progress the window it holds
\* is the one the chat's watermark gives and, once the handle is read, the
\* group's stored handle is the one read, whatever other turns did
\* meanwhile.
C24_GroupsIndependent ==
    /\ [][\A c \in DOMAIN registeredGroups :
            turn'[c] # turn[c] =>
                \A d \in DOMAIN registeredGroups \ {c} :
                    /\ sessions'[registeredGroups[d]] = sessions[registeredGroups[d]]
                    /\ diskSessions'[registeredGroups[d]] = diskSessions[registeredGroups[d]]
                    /\ lastAgentTimestamp'[d] = lastAgentTimestamp[d]
                    /\ diskTimestamp'[d] = diskTimestamp[d]
                    /\ tasksFile'[registeredGroups[d]] = tasksFile[registeredGroups[d]]
                    /\ groupsFile'[registeredGroups[d]] = groupsFile[registeredGroups[d]]]_vars
    /\ [](\A c \in DOMAIN registeredGroups :
            /\ turn[c].pc \in {"typing", "running"} =>
                  turn[c].window =
                      {m \in messages : /\ m.chat_jid = c
                                        /\ m.sender_name # "Neo"
                                        /\ m.timestamp > lastAgentTimestamp[c]
                                        /\ m.id <= turn[c].msg.id}
            /\ turn[c].pc = "running" =>
                  sessions[registeredGroups[c]] = turn[c].sessionId)

\* C24 witness: the whole turn of the non-main chat, which stored a session
\* handle and moved its watermark, ran while the turn of the main chat was
\* in progress.
C24_Witness ==
    /\ turn["telegram@chat:1"].pc = "running"
    /\ turn["telegram@chat:1"].msg.id = 1
    /\ lastTurn["telegram@chat:2"].kind = "done"
    /\ sessions["family"] = JStr(<<"s1">>)
    /\ lastAgentTimestamp["telegram@chat:2"] > 0
    /\ sessions[MAIN_GROUP_FOLDER] = JUndef
    /\ tasksFile[MAIN_GROUP_FOLDER].exists

(***************************************************************************)
(* Part VII: properties of the Telegram polling loop.                      *)
(***************************************************************************)
\* The step is a call of handleUpdate for batch[1], up to its return or to
\* the await of the container turn.
HandlesUpdate == loop = "poll" /\ batch # <<>> /\ <<loop, completed>>' # <<loop, completed>>

\* C25: at most one processMessage call is in progress, and a call starts
\* only when none is; the updates whose handling completed are the first
\* updates Telegram produced, each once and in order; the offset is one more
\* than the update_id of the last of them and never decreases; getUpdates
\* returns a batch only when the batch before it is handled to its end.
C25_SequentialPolling ==
    /\ [](/\ Cardinality({c \in Chats : turn[c].pc # "idle"}) <= 1
          /\ loop = "await" <=> ~AllIdle
          /\ Len(completed) <= Len(updates)
          /\ \A i \in 1..Len(completed) : completed[i] = updates[i].update_id
          /\ offset = IF completed = <<>> THEN 0
                      ELSE completed[Len(completed)] + 1)
    /\ [][/\ offset' >= offset
          /\ nturns' # nturns => AllIdle
          /\ Len(batch') > Len(batch) => (batch = <<>> /\ AllIdle)
          /\ HandlesUpdate => batch[1].update_id = Len(completed) + 1]_vars

\* C25 witness: the handling of the first update, which ran a turn, has
\* completed, the offset is past it, and the second update's turn is in
\* progress.
C25_Witness ==
    /\ loop = "await"
    /\ completed = <<1>>
    /\ offset = 2
    /\ batch # <<>> /\ batch[1].update_id = 2
    /\ \E c \in Chats : lastTurn[c].kind = "done"
    /\ \E c \in Chats : turn[c].pc = "running" /\ turn[c].msg.id = 2

\* C26 (as claimed): a stored message of a registered chat, not authored by
\* the assistant, whose timestamp is at or below the chat's watermark while
\* no turn of the chat is in progress, was in the window of a turn that
\* returned a string.
C26_NoMessageSkipped ==
    \A m \in messages :
        ( /\ m.chat_jid \in {"telegram@chat:1", "telegram@chat:2"}
          /\ m.sender_name # "Neo"
          /\ turn[m.chat_jid].pc = "idle"
          /\ m.timestamp <= lastAgentTimestamp[m.chat_jid] )
        => m \in covered

\* C27: handleUpdate stores the message of an update and calls
\* processMessage only for a text message whose sender's id is in
\* TELEGRAM_ALLOWED_USER_IDS, and then stores the chat metadata, stores the
\* message and calls processMessage, in this order; for every other update
\* nothing is stored, no turn starts and the state of the router stays as it
\* is.
C27_Authorization ==
    [][HandlesUpdate =>
          LET u == batch[1]
          IN IF u.kind = "text" /\ u.from.id # 0
                /\ u.from.id \in TELEGRAM_ALLOWED_USER_IDS
             THEN /\ calls' = calls \o << <<"storeChatMetadata", u.message_id>>,
                                          <<"storeNewMessage", u.message_id>>,
                                          <<"processMessage", u.message_id>> >>
                  /\ \E m \in messages' \ messages : m.id = u.message_id
                  /\ nturns' = nturns + 1
             ELSE /\ calls' = calls
                  /\ messages' = messages
                  /\ nturns' = nturns
                  /\ turn' = turn
                  /\ sent' = sent
                  /\ sessions' = sessions /\ diskSessions' = diskSessions
                  /\ lastAgentTimestamp' = lastAgentTimestamp
                  /\ diskTimestamp' = diskTimestamp
                  /\ tasksFile' = tasksFile /\ groupsFile' = groupsFile]_vars

\* C27 witness: the text of the user 8, who is not in the allow list, was
\* rejected and left no trace; the text of the user 7 was stored and
\* started a turn.
C27_Witness ==
    /\ TELEGRAM_ALLOWED_USER_IDS = {7}
    /\ Len(updates) = 2
    /\ updates[1].kind = "text" /\ updates[1].from.id = 8
    /\ updates[2].from.id = 7
    /\ completed = <<1>>
    /\ loop = "await"
    /\ {m.id : m \in messages} = {2}
    /\ calls = << <<"storeChatMetadata", 2>>, <<"storeNewMessage", 2>>,
                  <<"processMessage", 2>> >>

====
